---- MODULE Spec2Model ----
(***************************************************************************)
(* Model of the ai_assistant backend.                                      *)
(*   - LLM Gateway:            app/services/llm.py   (ask_llm)             *)
(*   - Generic Repository:     app/crud/base.py      (CRUDBase.create)     *)
(*   - HTTP Interception Layer app/core/middleware/global_.py              *)
(*                             (TraceLogger, LoggingMiddleware)            *)
(* Specifications of the module: SpecLLM runs gateway invocations, each on  *)
(* its own session, against one committed store; SpecMW runs one request    *)
(* through LoggingMiddleware.dispatch; SpecTL calls one TraceLogger;        *)
(* SpecCRUD queries a bounded table through CRUDBase; SpecTen serves        *)
(* GET /llm/ten_msgs over a growing table.                                  *)
(***************************************************************************)
EXTENDS Integers, Sequences, FiniteSets, TLC

VARIABLES
    \* ---- LLM Gateway / persistence ----
    keyConfigured,  \* settings.openrouter.key is not None
    gw,             \* invocation -> frame of ask_llm (pc, arguments, locals, outcome)
    sess,           \* invocation -> its AsyncSession: staged (flushed) rows, calls made
    hist,           \* invocation -> the calls ask_llm has made, in order
    store,          \* committed rows of table msg
    nextId,         \* the table's id sequence
    \* ---- HTTP Interception Layer ----
    logLevel,       \* settings.app.LOG_LEVEL
    req,            \* the inbound request
    mw,             \* frame of LoggingMiddleware.dispatch
    log,            \* every TraceLogger call of the request, in order
    \* ---- TraceLogger on its own, repository reads ----
    tl,             \* a TraceLogger instance and the calls of it that raised
    qry             \* the last repository read: its arguments and its outcome

llmVars == <<keyConfigured, gw, sess, hist, store, nextId>>
mwVars  == <<logLevel, req, mw, log>>
vars    == <<keyConfigured, gw, sess, hist, store, nextId, logLevel, req, mw, log,
             tl, qry>>

None == "None"

(***************************************************************************)
(* Bounds                                                                  *)
(***************************************************************************)
NumCalls == 2       \* concurrent ask_llm invocations
MaxChunks == 2      \* chunks in a streamed response body
MaxLogCalls == 2    \* calls made on one TraceLogger
MaxRows == 3        \* rows of the table a repository read runs over
MaxMsgs == 15       \* messages stored before GET /llm/ten_msgs is served
MaxTies == 2        \* stored messages that share the timestamp of the one before

Invocations == 1..NumCalls
Users       == {1, 2}
\* the authenticated user of invocation i (endpoints/llm.py:28 Depends(current_user))
CurrentUser(i) == IF i % 2 = 1 THEN 1 ELSE 2
Questions   == {"q1", "q2"}
Answers     == {"a1", "a2"}

(***************************************************************************)
(* LLM Gateway: app/services/llm.py                                        *)
(***************************************************************************)

\* llm.py:36  the fixed canned answer of the mock branch (a Russian sentence,
\* "this is a test answer, because mock mode is on"; named here in ASCII)
CannedMessage == "mock-mode test answer"

UseMock_IgnoresMissingKey(mock_mode) == mock_mode

\* llm.py:34  `mock_mode or settings.openrouter.key is None`
UseMock(mock_mode) == mock_mode \/ ~keyConfigured

\* Exceptions the collaborators raise.  The OpenAI client raises errors that
\* carry a status_code (APIStatusError) and errors that do not
\* (APIConnectionError, the APIError base class); the session raises
\* SQLAlchemy errors, which carry none.
ExternalErrors ==
    { [cls |-> "APIStatusError", has_status |-> TRUE, status_code |-> 429,
       text |-> "Rate limit exceeded"],
      [cls |-> "APIStatusError", has_status |-> TRUE, status_code |-> 503,
       text |-> "Service unavailable"],
      [cls |-> "APIConnectionError", has_status |-> FALSE, status_code |-> 0,
       text |-> "Connection error."] }

DBError ==
    [cls |-> "SQLAlchemyError", has_status |-> FALSE, status_code |-> 0,
     text |-> "db failure"]

GetAttrStatus_Always500(e) == 500

\* llm.py:62  getattr(e, 'status_code', 500)
GetAttrStatus(e) == IF e.has_status THEN e.status_code ELSE 500

\* llm.py:61-68  the except clause: the HTTPException that replaces e
UniformError(e) ==
    [kind |-> "HTTPException", status_code |-> GetAttrStatus(e),
     message |-> e.text]

\* llm.py:36 / llm.py:60  LLMResponse(message=...)
LLMResponse(message) ==
    [kind |-> "LLMResponse", status_code |-> 200, message |-> message]

NoResult == [kind |-> None, status_code |-> 0, message |-> None]

\* schemas/llm.py MsgSchema(message=..., question=...)
MsgSchema(message, question) == [message |-> message, question |-> question]

\* One entry of hist: a call made by ask_llm.  ok is FALSE when the call
\* raised; id is the id of the row a successful create staged, else 0.
Event(ev, question, user, ok, id) ==
    [ev |-> ev, question |-> question, user |-> user, ok |-> ok, id |-> id]

NoExc == [cls |-> None, has_status |-> FALSE, status_code |-> 0, text |-> None]

IdleFrame ==
    [pc |-> "idle", mock_mode |-> FALSE, question |-> None, user |-> 0,
     answer |-> None, exc |-> NoExc, result |-> NoResult]

NewSession == [staged |-> <<>>, calls |-> <<>>]

(***************************************************************************)
(* Generic Repository: app/crud/base.py CRUDBase.create                    *)
(***************************************************************************)

NewRow_NoOwner(obj_in, user_id, id) ==
    [id |-> id, message |-> obj_in.message, question |-> obj_in.question,
     user_id |-> 0, date |-> id]

\* base.py:189-192  model_dump, attach user_id, build the Msg; the id comes
\* from the table sequence at flush, date defaults at insert (models/msg.py)
NewRow(obj_in, user_id, id) ==
    [id |-> id, message |-> obj_in.message, question |-> obj_in.question,
     user_id |-> user_id, date |-> id]

SessionAfterCreate_NotStaged(s, row) ==
    [staged |-> s.staged, calls |-> s.calls \o <<"add", "refresh">>]

SessionAfterCreate_AlsoCommits(s, row) ==
    [staged |-> Append(s.staged, row),
     calls  |-> s.calls \o <<"add", "flush", "refresh", "commit">>]

\* base.py:193-196  add + flush + refresh on the caller's session; no commit
SessionAfterCreate(s, row) ==
    [staged |-> Append(s.staged, row),
     calls  |-> s.calls \o <<"add", "flush", "refresh">>]

\* base.py:193-194 when flush raises: the row never reaches the transaction
SessionAfterFailedCreate(s) ==
    [s EXCEPT !.calls = s.calls \o <<"add", "flush">>]

\* llm.py:59  async_session.commit(): every staged row becomes durable
SessionAfterCommit(s) ==
    [staged |-> <<>>, calls |-> Append(s.calls, "commit")]

Range(f) == { f[x] : x \in DOMAIN f }

StoreAfterCommit_FirstRowOnly(s) ==
    IF s.staged = <<>> THEN store ELSE store \cup {s.staged[1]}

StoreAfterCommit(s) == store \cup Range(s.staged)

\* core/db.py:124-125  leaving `async with AsyncSessionLocal()` closes the
\* session; what was flushed and not committed is rolled back
SessionAfterClose(s) ==
    [staged |-> <<>>, calls |-> Append(s.calls, "close")]

InitLLMVars ==
    /\ keyConfigured \in BOOLEAN
    /\ gw = [i \in Invocations |-> IdleFrame]
    /\ sess = [i \in Invocations |-> NewSession]
    /\ hist = [i \in Invocations |-> <<>>]
    /\ store = {}
    /\ nextId = 1

\* endpoints/llm.py:23-37  add_msg awaits ask_llm with a fresh session
Call(i) ==
    /\ gw[i].pc = "idle"
    /\ \E m \in BOOLEAN, q \in Questions :
          gw' = [gw EXCEPT ![i] = [IdleFrame EXCEPT !.pc = "entered",
                                   !.mock_mode = m, !.question = q,
                                   !.user = CurrentUser(i)]]
    /\ UNCHANGED <<keyConfigured, sess, hist, store, nextId>>

\* llm.py:34-35  mock branch: await asyncio.sleep(1.5)
MockSleep(i) ==
    /\ gw[i].pc = "entered"
    /\ UseMock(gw[i].mock_mode)
    /\ gw' = [gw EXCEPT ![i].pc = "slept"]
    /\ hist' = [hist EXCEPT ![i] = Append(@, Event("sleep", FALSE, gw[i].user, TRUE, 0))]
    /\ UNCHANGED <<keyConfigured, sess, store, nextId>>

\* llm.py:36  return the canned LLMResponse
MockReturn(i) ==
    /\ gw[i].pc = "slept"
    /\ gw' = [gw EXCEPT ![i].pc = "returned", ![i].result = LLMResponse(CannedMessage)]
    /\ UNCHANGED <<keyConfigured, sess, hist, store, nextId>>

\* llm.py:42-46 (and 54-58)  await msg_crud.create(...): either the row is
\* staged in the session, or the flush raises and the except clause of
\* llm.py:61-68 turns the error into the uniform HTTPException
CreateStep(i, obj_in, is_question, next_pc) ==
    \/ /\ sess' = [sess EXCEPT ![i] =
                     SessionAfterCreate(@, NewRow(obj_in, gw[i].user, nextId))]
       /\ nextId' = nextId + 1
       /\ hist' = [hist EXCEPT ![i] =
                     Append(@, Event("create", is_question, gw[i].user, TRUE, nextId))]
       /\ gw' = [gw EXCEPT ![i].pc = next_pc]
    \/ /\ sess' = [sess EXCEPT ![i] = SessionAfterFailedCreate(@)]
       /\ nextId' = nextId
       /\ hist' = [hist EXCEPT ![i] =
                     Append(@, Event("create", is_question, gw[i].user, FALSE, 0))]
       /\ gw' = [gw EXCEPT ![i].pc = "raised", ![i].exc = DBError,
                           ![i].result = UniformError(DBError)]

\* llm.py:38-46  live branch: build the client, persist the question
CreateQuestion(i) ==
    /\ gw[i].pc = "entered"
    /\ ~UseMock(gw[i].mock_mode)
    /\ CreateStep(i, MsgSchema(gw[i].question, TRUE), TRUE, "ask")
    /\ UNCHANGED <<keyConfigured, store>>

\* llm.py:48-53  await client.chat.completions.create(...)
External(i) ==
    /\ gw[i].pc = "ask"
    /\ \/ \E a \in Answers :
             gw' = [gw EXCEPT ![i].pc = "save_answer", ![i].answer = a]
       \/ \E e \in ExternalErrors :
             gw' = [gw EXCEPT ![i].pc = "raised", ![i].exc = e,
                                 ![i].result = UniformError(e)]
    /\ hist' = [hist EXCEPT ![i] = Append(@, Event("external", FALSE, gw[i].user,
                                                  gw'[i].pc # "raised", 0))]
    /\ UNCHANGED <<keyConfigured, sess, store, nextId>>

\* llm.py:54-58  persist the answer
CreateAnswer(i) ==
    /\ gw[i].pc = "save_answer"
    /\ CreateStep(i, MsgSchema(gw[i].answer, FALSE), FALSE, "commit")
    /\ UNCHANGED <<keyConfigured, store>>

\* llm.py:59-60  await async_session.commit(); return LLMResponse(answer)
Commit(i) ==
    /\ gw[i].pc = "commit"
    /\ \/ /\ store' = StoreAfterCommit(sess[i])
          /\ sess' = [sess EXCEPT ![i] = SessionAfterCommit(@)]
          /\ hist' = [hist EXCEPT ![i] = Append(@, Event("commit", FALSE, gw[i].user, TRUE, 0))]
          /\ gw' = [gw EXCEPT ![i].pc = "returned",
                              ![i].result = LLMResponse(gw[i].answer)]
       \/ /\ store' = store
          /\ sess' = [sess EXCEPT ![i].calls = Append(@, "commit")]
          /\ hist' = [hist EXCEPT ![i] = Append(@, Event("commit", FALSE, gw[i].user, FALSE, 0))]
          /\ gw' = [gw EXCEPT ![i].pc = "raised", ![i].exc = DBError,
                              ![i].result = UniformError(DBError)]
    /\ UNCHANGED <<keyConfigured, nextId>>

\* core/db.py:111-125  the request ends: get_async_session closes the session
CloseSession(i) ==
    /\ gw[i].pc \in {"returned", "raised"}
    /\ gw' = [gw EXCEPT ![i].pc = IF gw[i].pc = "returned" THEN "closed_ok" ELSE "closed_err"]
    /\ sess' = [sess EXCEPT ![i] = SessionAfterClose(@)]
    /\ UNCHANGED <<keyConfigured, hist, store, nextId>>

(***************************************************************************)
(* Bytes and text.  A body is a sequence of bytes (0..255); text is a       *)
(* sequence of code points.  bytes.decode('utf-8') is modelled for the one- *)
(* and two-byte forms; every other lead byte raises UnicodeDecodeError (the  *)
(* byte alphabet below holds no lead byte of a longer form).                *)
(***************************************************************************)
Bytes == {65, 169, 195, 255}    \* 'A', a continuation byte, a 2-byte lead, an invalid byte

IsAscii(b) == b < 128
IsLead2(b) == b >= 194 /\ b <= 223
IsCont(b)  == b >= 128 /\ b <= 191

RECURSIVE Utf8Valid(_)
Utf8Valid(bs) ==
    IF bs = <<>> THEN TRUE
    ELSE IF IsAscii(bs[1]) THEN Utf8Valid(Tail(bs))
    ELSE IF IsLead2(bs[1]) /\ Len(bs) >= 2 /\ IsCont(bs[2])
         THEN Utf8Valid(Tail(Tail(bs)))
    ELSE FALSE

RECURSIVE Utf8Decode(_)
Utf8Decode(bs) ==
    IF bs = <<>> THEN <<>>
    ELSE IF IsAscii(bs[1]) THEN <<bs[1]>> \o Utf8Decode(Tail(bs))
    ELSE <<(bs[1] - 192) * 64 + (bs[2] - 128)>> \o Utf8Decode(Tail(Tail(bs)))

\* the text that shows the bytes one code point per byte (what a lenient
\* decoder such as latin-1 would put in a log line)
RawText(bs) == bs

RECURSIVE Concat(_)
Concat(chunks) ==
    IF chunks = <<>> THEN <<>> ELSE chunks[1] \o Concat(Tail(chunks))

(***************************************************************************)
(* TraceLogger: app/core/middleware/global_.py:15-151                       *)
(***************************************************************************)
\* core/enums.py:4-8
LogLevel == {"DEBUG", "INFO", "WARNING", "ERROR"}

\* global_.py:72-76
level_priority == [l \in {"DEBUG", "INFO", "ERROR"} |->
                      CASE l = "DEBUG" -> 10 [] l = "INFO" -> 20 [] l = "ERROR" -> 30]

\* global_.py:77  the dict lookup level_priority[self.level] raises KeyError
\* for a level the dict does not hold
ShouldLogRaises(level) == level \notin DOMAIN level_priority

\* global_.py:54-77  _should_log
should_log(level, message_level) ==
    level_priority[message_level] >= level_priority[level]

\* global_.py:121-135  _create_string: "[request_id=<id>] <string>"
create_string(request_id, string) == [request_id |-> request_id, string |-> string]

\* A message: the fixed wording (kind) and the value formatted into it, which
\* is a string constant (str), a decoded text (text) or a number (num).
MsgStr(kind, str)   == [kind |-> kind, str |-> str, text |-> <<>>, num |-> 0]
MsgText(kind, text) == [kind |-> kind, str |-> "", text |-> text, num |-> 0]
MsgNum(kind, num)   == [kind |-> kind, str |-> "", text |-> <<>>, num |-> num]
\* "<method> <url>"
MethodUrl(request) == request.method \o " " \o request.url

\* global_.py:79-119  debug / info / error: one call of the logger, appended
\* to the record of calls; emitted tells whether the sink received the line
LogCall(lg, level, request_id, message_level, string) ==
    Append(lg, [sev |-> message_level,
                line |-> create_string(request_id, string),
                emitted |-> should_log(level, message_level)])

RECURSIVE LogCalls(_, _, _, _)
LogCalls(lg, level, request_id, calls) ==
    IF calls = <<>> THEN lg
    ELSE LogCalls(LogCall(lg, level, request_id, calls[1][1], calls[1][2]),
                  level, request_id, Tail(calls))

UUIDs == {"uuid-1", "uuid-2"}

(***************************************************************************)
(* LoggingMiddleware: app/core/middleware/global_.py:154-305                *)
(***************************************************************************)
Placeholder == "{'body': base64 object}"   \* global_.py:285, the fixed text (Russian in the source)

ReqBodies == { <<>>, <<65>>, <<195, 169>>, <<255>>, <<65, 255>> }

Requests ==
    [ has_id : BOOLEAN, x_request_id : {"rid-9"}, method : {"POST"},
      url : {"/llm/msg"}, body : ReqBodies ]

decoded_body_Latin1Fallback(body) ==
    IF body # <<>> /\ Utf8Valid(body) THEN Utf8Decode(body) ELSE RawText(body)

\* global_.py:279-285  decoded_body: '' unless the body is non-empty and decodes
decoded_body(body) ==
    IF body # <<>> /\ Utf8Valid(body) THEN Utf8Decode(body) ELSE <<>>

\* global_.py:280-285  the info call of the body capture, if any
BodyCaptureCalls(body) ==
    IF body = <<>> THEN <<>>
    ELSE IF Utf8Valid(body)
         THEN << <<"INFO", MsgText("Request body", Utf8Decode(body))>> >>
         ELSE << <<"INFO", MsgStr("Request body", Placeholder)>> >>

\* What call_next can do: return a streamed response, raise an HTTPException,
\* raise any other exception.
HeaderLists ==
    LET ct == <<"content-type", "application/json">>
        c1 == <<"set-cookie", "a=1">>
        c2 == <<"set-cookie", "b=2">>
    IN  { <<ct>>, <<ct, c1>>, <<ct, c1, c2>> }

RECURSIVE SeqsUpTo(_, _)
SeqsUpTo(S, n) ==
    IF n = 0 THEN { <<>> }
    ELSE LET shorter == SeqsUpTo(S, n - 1)
         IN  shorter \cup { Append(q, x) : q \in shorter, x \in S }

ChunkStreams == SeqsUpTo({ <<b>> : b \in Bytes }, MaxChunks)

HandlerResponses ==
    [ kind : {"response"}, status_code : {200, 201, 204, 404},
      headers : HeaderLists, media_type : {None, "text/plain"},
      chunks : ChunkStreams ]

HTTPExceptions ==
    [ kind : {"HTTPException"}, status_code : {404, 429}, detail : {"d1", "d2"} ]

OtherExceptions ==
    [ kind : {"Exception"}, text : {"boom", "secret"} ]

NoHandler == [kind |-> None]

\* global_.py:207  dict(response.headers): a dict holds one value per name;
\* Headers.__getitem__ gives the first value of a repeated name
RECURSIVE DictOfHeaders(_)
DictOfHeaders(hs) ==
    IF hs = <<>> THEN <<>>
    ELSE LET init == DictOfHeaders(SubSeq(hs, 1, Len(hs) - 1))
             last == hs[Len(hs)]
         IN  IF \E k \in DOMAIN init : init[k][1] = last[1]
             THEN init ELSE Append(init, last)

\* global_.py:204-209  the Response rebuilt from the buffered body
RebuiltResponse(r, response_body) ==
    [kind |-> "Response", status_code |-> r.status_code,
     headers |-> DictOfHeaders(r.headers), media_type |-> r.media_type,
     body |-> response_body]

HttpErrorResponse_Always500(e) ==
    [kind |-> "JSONResponse", status_code |-> 500, headers |-> <<>>,
     media_type |-> "application/json", body |-> [detail |-> e.detail]]

\* global_.py:228  JSONResponse(status_code=e.status_code, content={'detail': e.detail})
HttpErrorResponse(e) ==
    [kind |-> "JSONResponse", status_code |-> e.status_code, headers |-> <<>>,
     media_type |-> "application/json", body |-> [detail |-> e.detail]]

GeneralErrorResponse_LeaksText(e) ==
    [kind |-> "JSONResponse", status_code |-> 500, headers |-> <<>>,
     media_type |-> "application/json", body |-> [detail |-> e.text]]

\* global_.py:253-255  JSONResponse(status_code=500, content={'detail': 'Internal Server Error'})
GeneralErrorResponse(e) ==
    [kind |-> "JSONResponse", status_code |-> 500, headers |-> <<>>,
     media_type |-> "application/json", body |-> [detail |-> "Internal Server Error"]]

LogsBodies_Never(status_code) == FALSE

LogsBodies_Forgets201(status_code) == status_code # 200

\* global_.py:200  `status_code != 200 and status_code != 201`
LogsBodies(status_code) == status_code # 200 /\ status_code # 201

ProcessTime_SinceEpoch(now, start_time) == now

\* global_.py:304  time.time() - start_time
ProcessTime(now, start_time) == now - start_time

NoResponse == [kind |-> None]

InitFrame ==
    [pc |-> "start", request_id |-> None, now |-> 7, start_time |-> 0,
     decoded_body |-> <<>>, handler |-> NoHandler, calls |-> 0,
     response_body |-> <<>>, pos |-> 0, exc |-> NoHandler,
     outcomes |-> <<>>, finally_runs |-> 0, response |-> NoResponse,
     propagated |-> None]

InitMWVars ==
    /\ logLevel \in LogLevel
    /\ req \in Requests
    /\ mw = InitFrame
    /\ log = <<>>

get_request_id_AlwaysFresh(request, fresh) == fresh

\* global_.py:137-151  get_request_id
get_request_id(request, fresh) ==
    IF request.has_id THEN request.x_request_id ELSE fresh

\* global_.py:271-276  Start: request id, logger, start time, "Incoming
\* request".  The info call is outside the try: when _should_log raises
\* KeyError the exception leaves dispatch.
Start ==
    /\ mw.pc = "start"
    /\ \E fresh \in UUIDs :
         LET rid == get_request_id(req, fresh) IN
         IF ShouldLogRaises(logLevel)
         THEN /\ mw' = [mw EXCEPT !.pc = "crashed", !.request_id = rid,
                                  !.start_time = mw.now, !.propagated = "KeyError"]
              /\ log' = log
         ELSE /\ mw' = [mw EXCEPT !.pc = "body", !.request_id = rid,
                                  !.start_time = mw.now]
              /\ log' = LogCall(log, logLevel, rid, "INFO",
                                MsgStr("Incoming request", MethodUrl(req)))
    /\ UNCHANGED <<logLevel, req>>

\* global_.py:277-285  Body capture
BodyCapture ==
    /\ mw.pc = "body"
    /\ mw' = [mw EXCEPT !.pc = "call_next", !.now = @ + 1,
                        !.decoded_body = decoded_body(req.body)]
    /\ log' = LogCalls(log, logLevel, mw.request_id, BodyCaptureCalls(req.body))
    /\ UNCHANGED <<logLevel, req>>

\* global_.py:191-196  response = await call_next(request); on return the two
\* info calls and response_body = b''.  global_.py:294, 299: an exception of
\* the handler reaches the except clauses of dispatch.
CallNextReturns ==
    /\ mw.pc = "call_next"
    /\ \E r \in HandlerResponses :
         /\ mw' = [mw EXCEPT !.pc = "drain", !.now = @ + 1, !.handler = r,
                             !.calls = @ + 1, !.response_body = <<>>, !.pos = 0]
         /\ log' = LogCalls(log, logLevel, mw.request_id,
                            << <<"INFO", MsgStr("Request completed", MethodUrl(req))>>,
                               <<"INFO", MsgNum("Status code", r.status_code)>> >>)
    /\ UNCHANGED <<logLevel, req>>

CallNextRaises ==
    /\ mw.pc = "call_next"
    /\ \E e \in HTTPExceptions \cup OtherExceptions :
         mw' = [mw EXCEPT !.pc = IF e.kind = "HTTPException"
                                 THEN "except_http" ELSE "except_general",
                          !.now = @ + 1, !.handler = e, !.calls = @ + 1, !.exc = e]
    /\ UNCHANGED <<logLevel, req, log>>

\* global_.py:197-198  async for chunk in response.body_iterator
DrainChunk ==
    /\ mw.pc = "drain"
    /\ mw.pos < Len(mw.handler.chunks)
    /\ mw' = [mw EXCEPT !.pos = @ + 1,
                        !.response_body = @ \o mw.handler.chunks[mw.pos + 1]]
    /\ UNCHANGED <<logLevel, req, log>>

\* global_.py:200-209  the stream is exhausted: log the bodies of a status
\* other than 200/201, rebuild the response.  response_body.decode() raises
\* UnicodeDecodeError after the request body has been logged; the error is
\* caught by `except Exception` of dispatch.
GeneralResponseEnd ==
    /\ mw.pc = "drain"
    /\ mw.pos = Len(mw.handler.chunks)
    /\ IF LogsBodies(mw.handler.status_code)
       THEN IF Utf8Valid(mw.response_body)
            THEN /\ log' = LogCalls(log, logLevel, mw.request_id,
                            << <<"ERROR", MsgText("Request body", mw.decoded_body)>>,
                               <<"ERROR", MsgText("Response body", Utf8Decode(mw.response_body))>> >>)
                 /\ mw' = [mw EXCEPT !.pc = "finally",
                                     !.outcomes = Append(@, "normal"),
                                     !.response = RebuiltResponse(mw.handler, mw.response_body)]
            ELSE /\ log' = LogCall(log, logLevel, mw.request_id, "ERROR",
                                   MsgText("Request body", mw.decoded_body))
                 /\ mw' = [mw EXCEPT !.pc = "except_general",
                                     !.exc = [kind |-> "Exception", text |-> "UnicodeDecodeError"]]
       ELSE /\ log' = log
            /\ mw' = [mw EXCEPT !.pc = "finally",
                                !.outcomes = Append(@, "normal"),
                                !.response = RebuiltResponse(mw.handler, mw.response_body)]
    /\ UNCHANGED <<logLevel, req>>

\* global_.py:294-297, 211-228  except HTTPException: __handle_http_exception
HandleHttpException ==
    /\ mw.pc = "except_http"
    /\ log' = LogCalls(log, logLevel, mw.request_id,
                  << <<"ERROR", MsgStr("HTTPException occurred", mw.exc.detail)>>,
                     <<"ERROR", MsgStr("Traceback", mw.exc.kind)>> >>)
    /\ mw' = [mw EXCEPT !.pc = "finally", !.outcomes = Append(@, "handled"),
                        !.response = HttpErrorResponse(mw.exc)]
    /\ UNCHANGED <<logLevel, req>>

\* global_.py:299-302, 230-255  except Exception: __handle_general_exception
HandleGeneralException ==
    /\ mw.pc = "except_general"
    /\ log' = LogCalls(log, logLevel, mw.request_id,
                  << <<"ERROR", MsgStr("Exception occurred", mw.exc.text)>>,
                     <<"ERROR", MsgStr("Traceback", mw.exc.kind)>>,
                     <<"ERROR", MsgStr("Request failed", MethodUrl(req))>> >>)
    /\ mw' = [mw EXCEPT !.pc = "finally", !.outcomes = Append(@, "unhandled"),
                        !.response = GeneralErrorResponse(mw.exc)]
    /\ UNCHANGED <<logLevel, req>>

\* global_.py:303-305  finally: the elapsed time, then the response goes out
Finally ==
    /\ mw.pc = "finally"
    /\ log' = LogCall(log, logLevel, mw.request_id, "INFO",
                      MsgNum("Process time", ProcessTime(mw.now + 1, mw.start_time)))
    /\ mw' = [mw EXCEPT !.pc = "done", !.now = @ + 1, !.finally_runs = @ + 1]
    /\ UNCHANGED <<logLevel, req>>

ParkedLLM ==
    /\ keyConfigured = TRUE
    /\ gw = [i \in Invocations |-> IdleFrame]
    /\ sess = [i \in Invocations |-> NewSession]
    /\ hist = [i \in Invocations |-> <<>>]
    /\ store = {}
    /\ nextId = 1

ParkedAux ==
    /\ tl = None
    /\ qry = None

InitMW == InitMWVars /\ ParkedLLM /\ ParkedAux

NextMW ==
    \/ Start /\ UNCHANGED <<llmVars, tl, qry>>
    \/ BodyCapture /\ UNCHANGED <<llmVars, tl, qry>>
    \/ CallNextReturns /\ UNCHANGED <<llmVars, tl, qry>>
    \/ CallNextRaises /\ UNCHANGED <<llmVars, tl, qry>>
    \/ DrainChunk /\ UNCHANGED <<llmVars, tl, qry>>
    \/ GeneralResponseEnd /\ UNCHANGED <<llmVars, tl, qry>>
    \/ HandleHttpException /\ UNCHANGED <<llmVars, tl, qry>>
    \/ HandleGeneralException /\ UNCHANGED <<llmVars, tl, qry>>
    \/ Finally /\ UNCHANGED <<llmVars, tl, qry>>

SpecMW == InitMW /\ [][NextMW]_vars

ParkedMW ==
    /\ logLevel = "INFO"
    /\ req = None
    /\ mw = None
    /\ log = <<>>

InitLLM == InitLLMVars /\ ParkedMW /\ ParkedAux

NextLLM ==
    \E i \in Invocations :
        \/ Call(i) /\ UNCHANGED <<mwVars, tl, qry>>
        \/ MockSleep(i) /\ UNCHANGED <<mwVars, tl, qry>>
        \/ MockReturn(i) /\ UNCHANGED <<mwVars, tl, qry>>
        \/ CreateQuestion(i) /\ UNCHANGED <<mwVars, tl, qry>>
        \/ External(i) /\ UNCHANGED <<mwVars, tl, qry>>
        \/ CreateAnswer(i) /\ UNCHANGED <<mwVars, tl, qry>>
        \/ Commit(i) /\ UNCHANGED <<mwVars, tl, qry>>
        \/ CloseSession(i) /\ UNCHANGED <<mwVars, tl, qry>>

SpecLLM == InitLLM /\ [][NextLLM]_vars

(***************************************************************************)
(* TraceLogger called on its own: global_.py:42-135                         *)
(***************************************************************************)
LogTexts == {"t1", "t2"}

\* global_.py:42-52  TraceLogger(request_id, level); level is logLevel
InitTL ==
    /\ logLevel \in LogLevel
    /\ \E rid \in UUIDs \cup {"rid-9"} : tl = [request_id |-> rid, raised |-> <<>>]
    /\ log = <<>>
    /\ req = None
    /\ mw = None
    /\ qry = None
    /\ ParkedLLM

\* global_.py:79-119  debug / info / error: _should_log either raises
\* KeyError (the call emits nothing and the exception reaches the caller) or
\* decides whether the line goes to the sink of that severity
TraceCall(message_level) ==
    /\ Len(log) + Len(tl.raised) < MaxLogCalls
    /\ \E string \in LogTexts :
         IF ShouldLogRaises(logLevel)
         THEN /\ tl' = [tl EXCEPT !.raised = Append(@, [sev |-> message_level,
                                                         string |-> string])]
              /\ log' = log
         ELSE /\ log' = LogCall(log, logLevel, tl.request_id, message_level,
                                MsgStr("text", string))
              /\ tl' = tl
    /\ UNCHANGED <<logLevel, req, mw, qry, llmVars>>

debug == TraceCall("DEBUG")     \* global_.py:79-91
info  == TraceCall("INFO")      \* global_.py:93-105
error == TraceCall("ERROR")     \* global_.py:107-119

NextTL == debug \/ info \/ error

SpecTL == InitTL /\ [][NextTL]_vars

(***************************************************************************)
(* Generic Repository reads: app/crud/base.py get_multi, get_multi_or_404   *)
(* The table is `store`; a row is a Msg (id, message, question, user_id,     *)
(* date).  An optional int argument (limit, offset) is a record saying       *)
(* whether it was given; filter_by is the keyword dict, here over the        *)
(* columns question and user_id.                                             *)
(***************************************************************************)
NotGiven == [some |-> FALSE, val |-> 0]
Given(n) == [some |-> TRUE, val |-> n]

Min(a, b) == IF a <= b THEN a ELSE b
Max(a, b) == IF a >= b THEN a ELSE b

\* **filter_by of base.py:38: which keywords are present, and their values
FilterBys ==
    { f \in [ has_question : BOOLEAN, question : BOOLEAN,
              has_user_id : BOOLEAN, user_id : Users ] :
        /\ ~f.has_question => f.question = TRUE
        /\ ~f.has_user_id => f.user_id = 1 }

NoFilter == [has_question |-> FALSE, question |-> TRUE, has_user_id |-> FALSE, user_id |-> 1]

\* base.py:87  select(self.model).filter_by(**filter_by): equality on every keyword
Matches(r, filter_by) ==
    /\ filter_by.has_question => r.question = filter_by.question
    /\ filter_by.has_user_id => r.user_id = filter_by.user_id

FilterBy(table, filter_by) == { r \in table : Matches(r, filter_by) }

\* order_by of base.py:35: a tuple of column.asc() / column.desc(); None and
\* the empty tuple both skip ORDER BY (base.py:89-90)
Asc(col)  == [col |-> col, desc |-> FALSE]
Desc_Ascending(col) == [col |-> col, desc |-> FALSE]
Desc(col) == [col |-> col, desc |-> TRUE]

OrderBys ==
    { <<>>, <<Asc("date")>>, <<Desc("date")>>,
      <<Asc("user_id"), Desc("date")>>, <<Desc("date"), Asc("user_id")>> }

\* ORDER BY k1, k2, ...: row a comes strictly before row b
RECURSIVE Before(_, _, _)
Before(a, b, order_by) ==
    IF order_by = <<>> THEN FALSE
    ELSE LET k == order_by[1] IN
         IF a[k.col] = b[k.col] THEN Before(a, b, Tail(order_by))
         ELSE IF k.desc THEN a[k.col] > b[k.col] ELSE a[k.col] < b[k.col]

\* the rows the database may deliver next: those no other row must precede.
\* Rows that tie on every key, and all rows without ORDER BY, come in any order.
CanBeNext(rows, order_by) ==
    { r \in rows : \A o \in rows : ~Before(o, r, order_by) }

\* every sequence in which the database may deliver the rows
RECURSIVE Delivered(_, _)
Delivered(rows, order_by) ==
    IF rows = {} THEN { <<>> }
    ELSE UNION { { <<r>> \o t : t \in Delivered(rows \ {r}, order_by) } :
                 r \in CanBeNext(rows, order_by) }

\* base.py:92-93  query.offset(offset) when offset is not None
Offset(rows, offset) ==
    IF offset.some THEN SubSeq(rows, offset.val + 1, Len(rows)) ELSE rows

Limit_OneMore(rows, limit) ==
    IF limit.some THEN SubSeq(rows, 1, Min(limit.val + 1, Len(rows))) ELSE rows

\* base.py:95-96  query.limit(limit) when limit is not None
Limit(rows, limit) ==
    IF limit.some THEN SubSeq(rows, 1, Min(limit.val, Len(rows))) ELSE rows

\* base.py:99  .scalars().unique().all(): an entity appears once, at its
\* first position
RECURSIVE Unique(_)
Unique(rows) ==
    IF rows = <<>> THEN <<>>
    ELSE LET init == Unique(SubSeq(rows, 1, Len(rows) - 1))
             last == rows[Len(rows)] IN
         IF \E k \in DOMAIN init : init[k].id = last.id THEN init
         ELSE Append(init, last)

\* base.py:87-99  get_multi: every sequence the call may return
get_multi(table, order_by, limit, offset, filter_by) ==
    { Unique(Limit(Offset(d, offset), limit)) :
        d \in Delivered(FilterBy(table, filter_by), order_by) }

\* the _detail argument of get_multi_or_404: absent (None), or a string
Details == { [given |-> FALSE, text |-> ""], [given |-> TRUE, text |-> ""],
             [given |-> TRUE, text |-> "custom-1"] }

ErrorDetail_AlwaysGenerated(detail, filter_by) ==
    [text |-> "No Msg found", filter_by |-> filter_by]

\* base.py:154-163  error_detail: `if _detail:` takes the custom text only
\* when it is a non-empty string; otherwise "No Msg found" followed, when
\* there are filters, by " with k=v, ..." (kept here as the filters themselves)
ErrorDetail(detail, filter_by) ==
    IF detail.given /\ detail.text # ""
    THEN [text |-> detail.text, filter_by |-> NoFilter]
    ELSE [text |-> "No Msg found", filter_by |-> filter_by]

RowsResult(rows) ==
    [kind |-> "rows", rows |-> rows, status_code |-> 0,
     detail |-> [text |-> "", filter_by |-> NoFilter]]

NotFound(error_detail) ==
    [kind |-> "HTTPException", rows |-> <<>>, status_code |-> 404, detail |-> error_detail]

get_multi_or_404_ReturnsEmpty(db_objs, detail, filter_by) == RowsResult(db_objs)

\* base.py:153-170  get_multi_or_404 on what its get_multi call returned
get_multi_or_404(db_objs, detail, filter_by) ==
    IF db_objs = <<>> THEN NotFound(ErrorDetail(detail, filter_by))
    ELSE RowsResult(db_objs)

NoQuery ==
    [op |-> "none", order_by |-> <<>>, limit |-> NotGiven, offset |-> NotGiven,
     filter_by |-> NoFilter, detail |-> [given |-> FALSE, text |-> ""],
     db_objs |-> <<>>, outcome |-> RowsResult(<<>>), caller |-> 0]

Query(op, order_by, limit, offset, filter_by, detail, db_objs, outcome) ==
    [op |-> op, order_by |-> order_by, limit |-> limit, offset |-> offset,
     filter_by |-> filter_by, detail |-> detail, db_objs |-> db_objs,
     outcome |-> outcome, caller |-> NoQuery.caller]

Limits  == { NotGiven } \cup { Given(n) : n \in 0..2 }
Offsets == { NotGiven } \cup { Given(n) : n \in 0..2 }

\* the fields of a stored Msg other than its id and text
RowKinds == [ question : BOOLEAN, user_id : Users, date : 1..2 ]

KindRank(k) ==
    (IF k.question THEN 0 ELSE 4) + (IF k.user_id = 1 THEN 0 ELSE 2) + (k.date - 1)

\* a table of n rows with ids 1..n.  A read does not look at the ids, so the
\* tables are taken up to renaming of ids (kinds listed in KindRank order).
Tables ==
    UNION { { { [id |-> i, message |-> "m", question |-> f[i].question,
                 user_id |-> f[i].user_id, date |-> f[i].date] : i \in 1..n } :
              f \in { g \in [1..n -> RowKinds] :
                        \A i \in 1..n, j \in 1..n :
                            i < j => KindRank(g[i]) <= KindRank(g[j]) } } :
            n \in 0..MaxRows }

InitCRUD ==
    /\ store \in Tables
    /\ qry = NoQuery
    /\ keyConfigured = TRUE
    /\ gw = [i \in Invocations |-> IdleFrame]
    /\ sess = [i \in Invocations |-> NewSession]
    /\ hist = [i \in Invocations |-> <<>>]
    /\ nextId = Cardinality(store) + 1
    /\ ParkedMW
    /\ tl = None

\* base.py:32-99  one call of get_multi on the table
GetMulti ==
    /\ qry.op = "none"
    /\ \E order_by \in OrderBys, limit \in Limits, offset \in Offsets,
          filter_by \in FilterBys :
         \E db_objs \in get_multi(store, order_by, limit, offset, filter_by) :
            qry' = Query("get_multi", order_by, limit, offset, filter_by,
                         NoQuery.detail, db_objs, RowsResult(db_objs))
    /\ UNCHANGED <<llmVars, mwVars, tl>>

\* base.py:101-170  one call of get_multi_or_404 on the table
GetMultiOr404 ==
    /\ qry.op = "none"
    /\ \E order_by \in OrderBys, limit \in Limits, offset \in Offsets,
          filter_by \in FilterBys, detail \in Details :
         \E db_objs \in get_multi(store, order_by, limit, offset, filter_by) :
            qry' = Query("get_multi_or_404", order_by, limit, offset, filter_by,
                         detail, db_objs,
                         get_multi_or_404(db_objs, detail, filter_by))
    /\ UNCHANGED <<llmVars, mwVars, tl>>

NextCRUD == GetMulti \/ GetMultiOr404

SpecCRUD == InitCRUD /\ [][NextCRUD]_vars

(***************************************************************************)
(* GET /llm/ten_msgs: app/api/endpoints/llm.py get_ten_msgs                  *)
(* Messages are stored one at a time; the timestamp of a message is that of  *)
(* the message stored before it or a later one.                              *)
(***************************************************************************)
TenLimit == 10      \* endpoints/llm.py:51  limit=10

\* who sends GET /llm/ten_msgs: nobody authenticated (0) or one of the users
Callers == {0} \cup Users

TenMsgsFilter_OwnMessages(caller) ==
    IF caller = 0 THEN NoFilter
    ELSE [has_question |-> FALSE, question |-> TRUE, has_user_id |-> TRUE,
          user_id |-> caller]

\* endpoints/llm.py:45-52  get_ten_msgs has no current_user dependency and
\* passes no filter keyword to get_multi_or_404, whoever the caller is
TenMsgsFilter(caller) == NoFilter

\* schemas/llm.py:38-81  MsgResponse: message, question, date, user_id
MsgResponse(row) ==
    [message |-> row.message, question |-> row.question, date |-> row.date,
     user_id |-> row.user_id]

RECURSIVE MsgResponses(_)
MsgResponses(rows) ==
    IF rows = <<>> THEN <<>>
    ELSE <<MsgResponse(Head(rows))>> \o MsgResponses(Tail(rows))

LastDate == IF store = {} THEN 0 ELSE CHOOSE d \in { r.date : r \in store } :
                                         \A r \in store : r.date <= d
TiesUsed == Cardinality(store) - Cardinality({ r.date : r \in store })

InitTen ==
    /\ store = {}
    /\ nextId = 1
    /\ qry = NoQuery
    /\ keyConfigured = TRUE
    /\ gw = [i \in Invocations |-> IdleFrame]
    /\ sess = [i \in Invocations |-> NewSession]
    /\ hist = [i \in Invocations |-> <<>>]
    /\ ParkedMW
    /\ tl = None

\* models/msg.py:25-29, llm.py:42-59  one more message is committed: a
\* question or an answer of some user, dated datetime.now() at its insert
StoreMsg ==
    /\ qry.op = "none"
    /\ Cardinality(store) < MaxMsgs
    /\ \E date \in { LastDate + 1 } \cup
                   (IF store # {} /\ TiesUsed < MaxTies THEN { LastDate } ELSE {}) :
         LET obj_in == MsgSchema("m", nextId % 2 = 1)
             row == [NewRow(obj_in, CurrentUser((nextId + 1) \div 2), nextId)
                        EXCEPT !.date = date] IN
         store' = store \cup { row }
    /\ nextId' = nextId + 1
    /\ UNCHANGED <<keyConfigured, gw, sess, hist, mwVars, tl, qry>>

\* endpoints/llm.py:45-53  get_ten_msgs: get_multi_or_404 with
\* order_by=(Msg.date.desc(),) and limit=10; the rows returned are serialised
\* as list[MsgResponse]; the HTTPException leaves the endpoint
GetTenMsgs ==
    /\ qry.op = "none"
    /\ \E caller \in Callers :
         \E db_objs \in get_multi(store, <<Desc("date")>>, Given(TenLimit), NotGiven,
                                  TenMsgsFilter(caller)) :
            LET result == get_multi_or_404(db_objs, NoQuery.detail, TenMsgsFilter(caller))
                q == Query("get_ten_msgs", <<Desc("date")>>, Given(TenLimit), NotGiven,
                           TenMsgsFilter(caller), NoQuery.detail, db_objs,
                           IF result.kind = "rows"
                           THEN RowsResult(MsgResponses(result.rows))
                           ELSE result)
            IN  qry' = [q EXCEPT !.caller = caller]
    /\ UNCHANGED <<llmVars, mwVars, tl>>

NextTen == StoreMsg \/ GetTenMsgs

SpecTen == InitTen /\ [][NextTen]_vars

(***************************************************************************)
(* Claims about the LLM Gateway (checked under SpecLLM)                    *)
(***************************************************************************)

Finished(i) == gw[i].pc \in {"returned", "raised", "closed_ok", "closed_err"}
Returned(i) == gw[i].pc \in {"returned", "closed_ok"}
Raised(i)   == gw[i].pc \in {"raised", "closed_err"}
LiveMode(i) == gw[i].pc # "idle" /\ ~gw[i].mock_mode /\ keyConfigured

EventsOf(i, ev) == { k \in DOMAIN hist[i] : hist[i][k].ev = ev }
ExternalSucceeded(i) ==
    \E k \in EventsOf(i, "external") : hist[i][k].ok
ExternalRaised(i) ==
    \E k \in EventsOf(i, "external") : ~hist[i][k].ok
PersistenceCalls == {"add", "flush", "refresh", "commit"}

\* The success shape of one invocation: write(question), external call,
\* write(answer), commit, in this order and nothing else; both rows belong to
\* the calling user and carry the question and the answer; the message
\* returned is the answer the external API gave.
SuccessShape(i) ==
    /\ Len(hist[i]) = 4
    /\ hist[i][1].ev = "create" /\ hist[i][1].question /\ hist[i][1].ok
    /\ hist[i][2].ev = "external" /\ hist[i][2].ok
    /\ hist[i][3].ev = "create" /\ ~hist[i][3].question /\ hist[i][3].ok
    /\ hist[i][4].ev = "commit" /\ hist[i][4].ok
    /\ Cardinality({ k \in DOMAIN sess[i].calls : sess[i].calls[k] = "commit" }) = 1
    /\ \E qrow \in store, arow \in store :
          /\ qrow.id = hist[i][1].id /\ arow.id = hist[i][3].id
          /\ qrow.question /\ qrow.message = gw[i].question
          /\ ~arow.question /\ arow.message = gw[i].answer
          /\ qrow.user_id = CurrentUser(i) /\ arow.user_id = CurrentUser(i)
    /\ Returned(i)
    /\ gw[i].result.kind = "LLMResponse"
    /\ gw[i].result.message = gw[i].answer
    /\ gw[i].answer \in Answers

C2_ExternalFailure ==
    \A i \in Invocations :
        (LiveMode(i) /\ ExternalRaised(i)) =>
            /\ Raised(i)
            /\ gw[i].result.kind = "HTTPException"
            /\ gw[i].exc \in ExternalErrors
            /\ gw[i].exc.has_status => gw[i].result.status_code = gw[i].exc.status_code
            /\ ~gw[i].exc.has_status => gw[i].result.status_code = 500
            /\ EventsOf(i, "commit") = {}
            /\ \A k \in DOMAIN sess[i].calls : sess[i].calls[k] # "commit"
            /\ \A r \in store : \A k \in DOMAIN hist[i] : r.id # hist[i][k].id

C2_Witness ==
    \E i, j \in Invocations :
        /\ gw[i].pc = "raised" /\ ExternalRaised(i) /\ gw[i].exc.has_status
        /\ gw[j].pc = "raised" /\ ExternalRaised(j) /\ ~gw[j].exc.has_status

\* C3: with mock_mode set, or with no API key configured, ask_llm never uses
\* the session (no add, flush, refresh or commit), never calls the external
\* API, never raises, and returns only after the sleep has completed, always
\* the same canned message whatever the question and the user.
C3_MockMode ==
    \A i \in Invocations :
        (gw[i].pc # "idle" /\ (gw[i].mock_mode \/ ~keyConfigured)) =>
            /\ \A k \in DOMAIN sess[i].calls : sess[i].calls[k] \notin PersistenceCalls
            /\ sess[i].staged = <<>>
            /\ \A k \in DOMAIN hist[i] : hist[i][k].ev = "sleep"
            /\ ~Raised(i)
            /\ Returned(i) =>
                  /\ hist[i] = <<Event("sleep", FALSE, CurrentUser(i), TRUE, 0)>>
                  /\ gw[i].result = LLMResponse(CannedMessage)

C3_Witness ==
    \E i, j \in Invocations :
        /\ gw[i].pc = "returned" /\ gw[j].pc = "returned"
        /\ gw[i].mock_mode /\ gw[j].mock_mode
        /\ gw[i].question # gw[j].question /\ gw[i].user # gw[j].user
        /\ gw[i].result = gw[j].result

C3_WitnessNoKey ==
    \E i \in Invocations :
        gw[i].pc = "returned" /\ ~gw[i].mock_mode /\ ~keyConfigured

(***************************************************************************)
(* Claims about the HTTP Interception Layer (checked under SpecMW)         *)
(***************************************************************************)
Terminal == mw.pc \in {"done", "crashed"}
HandlerReturned == mw.handler.kind = "response"
HandlerRaisedHttp == mw.handler.kind = "HTTPException"
HandlerRaisedOther == mw.handler.kind = "Exception"

Entries(sev, kind) ==
    { k \in DOMAIN log : log[k].sev = sev /\ log[k].line.string.kind = kind }
RequestBodyAtError == \E k \in Entries("ERROR", "Request body") : log[k].emitted
ResponseBodyAtError == \E k \in Entries("ERROR", "Response body") : log[k].emitted
InvalidRequestBody == req.body # <<>> /\ ~Utf8Valid(req.body)

\* C4 as stated: every request that enters dispatch ends with dispatch
\* returning a response; no exception leaves dispatch.
C4_AsStated ==
    Terminal => (mw.pc = "done" /\ mw.response.kind # None /\ mw.propagated = None)

\* C5: when the next handler raises an exception that is not an HTTPException,
\* the client gets status 500 with the body {"detail": "Internal Server
\* Error"}, and the exception text is not in the response.
C5_GenericError ==
    HandlerRaisedOther =>
        /\ mw.pc \in {"except_general", "finally", "done"}
        /\ mw.pc \in {"finally", "done"} =>
              /\ mw.response.kind = "JSONResponse"
              /\ mw.response.status_code = 500
              /\ mw.response.body = [detail |-> "Internal Server Error"]
              /\ mw.response.body.detail # mw.handler.text
              /\ mw.response.headers = <<>>

C5_Witness == mw.pc = "done" /\ HandlerRaisedOther /\ mw.handler.text = "secret"

\* C6 as stated: the bodies are logged at error severity if and only if the
\* status code of the response given to the client is other than 200 and 201.
C6_AsStated ==
    mw.pc = "done" =>
        ((RequestBodyAtError /\ ResponseBodyAtError)
            <=> mw.response.status_code \notin {200, 201})

\* C6 (amended): bodies are logged at error severity only for a request whose
\* next handler returned a response with a status code other than 200 and
\* 201: then the request body always is, and the response body is when it is
\* valid UTF-8.  When the next handler raises, no body is logged at error
\* severity, whatever status the client receives.
C6_BodiesAtError ==
    /\ (\E k \in DOMAIN log :
            log[k].sev = "ERROR"
            /\ log[k].line.string.kind \in {"Request body", "Response body"})
         => (HandlerReturned /\ mw.handler.status_code \notin {200, 201})
    /\ mw.pc = "done" =>
         /\ RequestBodyAtError <=>
               (HandlerReturned /\ mw.handler.status_code \notin {200, 201})
         /\ ResponseBodyAtError <=>
               (HandlerReturned /\ mw.handler.status_code \notin {200, 201}
                  /\ Utf8Valid(Concat(mw.handler.chunks)))
         /\ \A k \in Entries("ERROR", "Request body") :
               log[k].line.string.text = decoded_body(req.body)
         /\ \A k \in Entries("ERROR", "Response body") :
               log[k].line.string.text = Utf8Decode(Concat(mw.handler.chunks))
         /\ (HandlerRaisedHttp \/ HandlerRaisedOther) =>
               (~RequestBodyAtError /\ ~ResponseBodyAtError)

C6_Witness ==
    /\ mw.pc = "done" /\ HandlerReturned /\ mw.handler.status_code = 404
    /\ mw.response.status_code = 404
    /\ RequestBodyAtError /\ ResponseBodyAtError

C6_WitnessOk ==
    /\ mw.pc = "done" /\ HandlerReturned /\ mw.handler.status_code = 201
    /\ ~RequestBodyAtError /\ ~ResponseBodyAtError

\* C7: when the request body is not valid UTF-8, no log line of the request,
\* at any severity and in any outcome, carries the body's bytes as text; the
\* body capture logs the fixed placeholder in place of the body, and the
\* error-severity body line carries an empty text.
C7_UndecodableBody ==
    InvalidRequestBody =>
        /\ \A k \in DOMAIN log :
              /\ log[k].line.string.text # RawText(req.body)
              /\ log[k].line.string.kind = "Request body" =>
                    /\ log[k].line.string.text = <<>>
                    /\ log[k].sev = "INFO" => log[k].line.string.str = Placeholder
        /\ mw.pc \notin {"start", "body", "crashed"} =>
              /\ Cardinality(Entries("INFO", "Request body")) = 1
              /\ \A k \in Entries("INFO", "Request body") :
                    /\ log[k].line.string.str = Placeholder
                    /\ log[k].emitted <=> logLevel \in {"DEBUG", "INFO"}

C7_Witness ==
    /\ InvalidRequestBody /\ mw.pc = "done"
    /\ HandlerReturned /\ mw.handler.status_code = 404
    /\ RequestBodyAtError
    /\ \E k \in Entries("INFO", "Request body") : log[k].emitted

\* C8 as stated: each request reaches exactly one of the three outcome states,
\* exactly once, and an HTTPException is classified Handled-error.
C8_AsStated ==
    Terminal =>
        /\ Len(mw.outcomes) = 1
        /\ mw.outcomes[1] \in {"handled", "unhandled", "normal"}
        /\ HandlerRaisedHttp => mw.outcomes = <<"handled">>

\* C9: whichever outcome state a request reaches, the Finally step runs
\* exactly once, after the outcome has been classified, and logs (one info
\* call, the last of the request) the process time of that request.
C9_Finally ==
    /\ mw.finally_runs <= 1
    /\ Len(mw.outcomes) <= 1
    /\ mw.outcomes # <<>> => mw.pc \in {"finally", "done"}
    /\ mw.finally_runs = 1 <=> mw.pc = "done"
    /\ mw.pc = "done" =>
          /\ Len(mw.outcomes) = 1
          /\ Entries("INFO", "Process time") = {Len(log)}
          /\ log[Len(log)].line.string.num = mw.now - mw.start_time
          /\ log[Len(log)].line.request_id = mw.request_id
          /\ log[Len(log)].emitted <=> logLevel \in {"DEBUG", "INFO"}
    /\ mw.pc # "done" => Entries("INFO", "Process time") = {}

C9_Witness ==
    /\ mw.pc = "done" /\ mw.outcomes = <<"unhandled">> /\ HandlerReturned
    /\ log[Len(log)].emitted

\* C10 as stated: in the Normal state the stream is read once, fully and in
\* order, and the response returned has the status code, every header
\* name/value pair (repeated names included), the media type of the original
\* and the concatenation of the chunks as its body.
C10_AsStated ==
    (mw.pc \in {"finally", "done"} /\ mw.outcomes = <<"normal">>) =>
        /\ mw.calls = 1
        /\ mw.pos = Len(mw.handler.chunks)
        /\ mw.response.body = Concat(mw.handler.chunks)
        /\ mw.response.status_code = mw.handler.status_code
        /\ mw.response.media_type = mw.handler.media_type
        /\ mw.response.headers = mw.handler.headers

(***************************************************************************)
(* Claims about the TraceLogger (SpecTL) and the request identifier         *)
(***************************************************************************)
\* The order of the severities the claim speaks of, debug < info < error,
\* with WARNING where Python's logging puts it, between INFO and ERROR.
SeverityRank(l) ==
    CASE l = "DEBUG" -> 1 [] l = "INFO" -> 2 [] l = "WARNING" -> 3 [] l = "ERROR" -> 4

\* C11 as stated: for every severity and every threshold of LogLevel, a call
\* of debug/info/error emits the message if and only if its severity is at
\* least the threshold, and every emitted line is "[request_id=<id>] <text>".
C11_AsStated ==
    /\ \A k \in DOMAIN tl.raised :
          SeverityRank(tl.raised[k].sev) < SeverityRank(logLevel)
    /\ \A k \in DOMAIN log :
          /\ log[k].emitted <=> SeverityRank(log[k].sev) >= SeverityRank(logLevel)
          /\ log[k].line.request_id = tl.request_id
          /\ log[k].line.string.str \in LogTexts

\* C12: once dispatch has determined the request identifier, it is the value
\* of the inbound X-Request-ID header when the request has one and a freshly
\* generated identifier otherwise, and every log line made for the request
\* so far carries that same identifier (so it never changes afterwards).
C12_RequestId ==
    mw.pc # "start" =>
        /\ req.has_id => mw.request_id = req.x_request_id
        /\ ~req.has_id => mw.request_id \in UUIDs
        /\ \A k \in DOMAIN log : log[k].line.request_id = mw.request_id

\* a request with the header has finished with at least three emitted lines
C12_Witness ==
    /\ mw.pc = "done" /\ req.has_id
    /\ mw.request_id = "rid-9"
    /\ Cardinality({ k \in DOMAIN log : log[k].emitted }) >= 3

\* the same for a request without the header
C12_WitnessFresh ==
    /\ mw.pc = "done" /\ ~req.has_id
    /\ Cardinality({ k \in DOMAIN log : log[k].emitted }) >= 3

\* C19: when the next handler raised an HTTPException with status s and
\* detail d and dispatch has handled it, the response of dispatch is a JSON
\* response of status s whose body is {"detail": d}, and one emitted line of
\* ERROR severity carries the detail d.
C19_HandledError ==
    (mw.pc \in {"finally", "done"} /\ HandlerRaisedHttp) =>
        /\ mw.response.kind = "JSONResponse"
        /\ mw.response.status_code = mw.handler.status_code
        /\ mw.response.body = [detail |-> mw.handler.detail]
        /\ \E k \in Entries("ERROR", "HTTPException occurred") :
              /\ log[k].emitted
              /\ log[k].line.string.str = mw.handler.detail
              /\ log[k].line.request_id = mw.request_id

\* dispatch has returned the response of a 429 raised with detail "d2"
C19_Witness ==
    /\ mw.pc = "done" /\ HandlerRaisedHttp
    /\ mw.handler.status_code = 429 /\ mw.handler.detail = "d2"
    /\ mw.response.status_code = 429
    /\ mw.outcomes = <<"handled">>

\* The gateway half of C20: in one invocation the external API is called at
\* most once, the question write and the answer write are attempted at most
\* once each, and at most one commit is attempted, whether the invocation
\* returns or raises.
C20_GatewayAtMostOnce ==
    \A i \in Invocations :
        /\ Cardinality(EventsOf(i, "external")) <= 1
        /\ Cardinality({ k \in EventsOf(i, "create") : hist[i][k].question }) <= 1
        /\ Cardinality({ k \in EventsOf(i, "create") : ~hist[i][k].question }) <= 1
        /\ Cardinality(EventsOf(i, "commit")) <= 1

\* one invocation failed at the external call, another went through
C20_GatewayWitness ==
    \E i, j \in Invocations :
        /\ gw[i].pc = "closed_err" /\ ExternalRaised(i)
        /\ gw[j].pc = "closed_ok" /\ Len(hist[j]) = 4

\* The interception half of C20, at most: the next handler is never invoked
\* twice for one request.
C20_CallNextAtMostOnce == mw.calls <= 1

\* C20 as stated, for the Interception Layer: a request that has left
\* dispatch had the next handler invoked exactly once.
C20_AsStated == Terminal => mw.calls = 1

(***************************************************************************)
(* Claims about CRUDBase.create and the message pair (SpecLLM)              *)
(***************************************************************************)
\* a step in which invocation i called message_crud.create
CreateCalled(i) ==
    /\ Len(hist'[i]) = Len(hist[i]) + 1
    /\ hist'[i][Len(hist'[i])].ev = "create"

LastEvent(i) == hist'[i][Len(hist'[i])]

AllRows == store \cup UNION { Range(sess[j].staged) : j \in Invocations }

\* what create leaves behind when it returns: one more row staged in the
\* caller's session, with a fresh identifier, the input's fields and the
\* owner; nothing committed, no other session touched
CreateReturnedRow(i) ==
    /\ Len(sess'[i].staged) = Len(sess[i].staged) + 1
    /\ SubSeq(sess'[i].staged, 1, Len(sess[i].staged)) = sess[i].staged
    /\ LET row == sess'[i].staged[Len(sess'[i].staged)]
           e == LastEvent(i) IN
         /\ row.id = e.id
         /\ row.id >= 1
         /\ \A r \in AllRows : r.id # row.id
         /\ row.message = IF e.question THEN gw[i].question ELSE gw[i].answer
         /\ row.question = e.question
         /\ row.user_id = gw[i].user
    /\ sess'[i].calls = sess[i].calls \o <<"add", "flush", "refresh">>
    /\ store' = store
    /\ \A j \in Invocations \ {i} : sess'[j] = sess[j]

CommittedOf(i) ==
    LET ids == { hist[i][k].id :
                   k \in { j \in DOMAIN hist[i] : hist[i][j].ev = "create" /\ hist[i][j].ok } }
    IN  { r \in store : r.id \in ids }

\* C17: whatever the interleaving of the invocations, the committed store
\* holds for each invocation either no row of it or exactly its question row
\* and its answer row; and an invocation whose external call raised has no
\* committed row, in particular once its session is closed (nothing staged
\* is left to commit).
C17_PairAtomic ==
    \A i \in Invocations :
        LET mine == CommittedOf(i) IN
        /\ \/ mine = {}
           \/ /\ Cardinality(mine) = 2
              /\ \E q \in mine, a \in mine :
                    /\ q.question /\ q.message = gw[i].question
                    /\ ~a.question /\ a.message = gw[i].answer
                    /\ q.user_id = gw[i].user /\ a.user_id = gw[i].user
        /\ ExternalRaised(i) => mine = {}
        /\ (ExternalRaised(i) /\ gw[i].pc = "closed_err") => sess[i].staged = <<>>

\* two overlapping invocations: one committed its pair, the other failed at
\* the external call after its question row was flushed, and was closed
C17_Witness ==
    \E i, j \in Invocations :
        /\ i # j
        /\ Cardinality(CommittedOf(i)) = 2
        /\ gw[j].pc = "closed_err" /\ ExternalRaised(j)
        /\ \E k \in EventsOf(j, "create") : hist[j][k].ok /\ hist[j][k].id < hist[i][1].id
        /\ Cardinality(store) = 2

\* C18: at the moment ask_llm raises the uniform error because the external
\* call raised, the session of the invocation holds exactly the question row,
\* flushed and not committed (it is in no committed store), no rollback has
\* been called on the session, and no answer row was created.
C18_QuestionStillStaged ==
    \A i \in Invocations :
        (gw[i].pc = "raised" /\ ExternalRaised(i)) =>
            /\ gw[i].result.kind = "HTTPException"
            /\ Len(sess[i].staged) = 1
            /\ sess[i].staged[1].question
            /\ sess[i].staged[1].message = gw[i].question
            /\ sess[i].staged[1].user_id = gw[i].user
            /\ sess[i].staged[1] \notin store
            /\ sess[i].calls = <<"add", "flush", "refresh">>
            /\ \A k \in EventsOf(i, "create") : hist[i][k].question

\* the external call of an invocation raised (here: with a status code) and
\* the uniform error has just been raised, the session being still open
C18_Witness ==
    \E i \in Invocations :
        /\ gw[i].pc = "raised" /\ ExternalRaised(i)
        /\ gw[i].exc.has_status
        /\ Len(sess[i].staged) = 1

(***************************************************************************)
(* Claims about the Generic Repository reads (SpecCRUD)                     *)
(***************************************************************************)
\* the rows of the table whose fields equal every filter value
Matching ==
    { r \in store :
        /\ qry.filter_by.has_question => r.question = qry.filter_by.question
        /\ qry.filter_by.has_user_id => r.user_id = qry.filter_by.user_id }

Returned_rows == { qry.db_objs[k] : k \in DOMAIN qry.db_objs }

\* the number of rows a page holds: what is left of n rows after the offset,
\* cut to the limit
PageLen(n) ==
    LET left == IF qry.offset.some THEN Max(0, n - qry.offset.val) ELSE n IN
    IF qry.limit.some THEN Min(qry.limit.val, left) ELSE left

\* C13: a call of get_multi returns without error a sequence of distinct rows
\* that all match every filter, in the order of the ordering keys (first key
\* first), which is the page of the matching rows in that order: `offset`
\* matching rows (or all of them, if fewer) precede the page and are skipped,
\* the page holds at most `limit` rows, and every matching row left out
\* after the page does not precede any row of the page.  With no filter, no
\* ordering, no limit and no offset the result holds every row of the table;
\* when nothing is left the result is the empty sequence.
C13_List ==
    qry.op = "get_multi" =>
        /\ qry.outcome.kind = "rows" /\ qry.outcome.rows = qry.db_objs
        /\ Returned_rows \subseteq Matching
        /\ \A j \in DOMAIN qry.db_objs, k \in DOMAIN qry.db_objs :
              j < k => /\ qry.db_objs[j] # qry.db_objs[k]
                       /\ ~Before(qry.db_objs[k], qry.db_objs[j], qry.order_by)
        /\ Len(qry.db_objs) = PageLen(Cardinality(Matching))
        /\ \E skipped \in SUBSET (Matching \ Returned_rows) :
              /\ Cardinality(skipped) =
                    IF qry.offset.some THEN Min(qry.offset.val, Cardinality(Matching)) ELSE 0
              /\ \A x \in skipped, r \in Matching \ skipped :
                    ~Before(r, x, qry.order_by)
              /\ \A r \in Returned_rows, y \in Matching \ (skipped \cup Returned_rows) :
                    ~Before(y, r, qry.order_by)
        /\ (qry.filter_by = NoFilter /\ ~qry.limit.some /\ ~qry.offset.some)
              => Returned_rows = store

\* a read with two filters, two ordering keys, an offset and a limit that
\* returned two of at least three matching rows
C13_Witness ==
    /\ qry.op = "get_multi"
    /\ qry.filter_by.has_question /\ qry.filter_by.has_user_id
    /\ Len(qry.order_by) = 2
    /\ qry.offset = Given(1) /\ qry.limit = Given(2)
    /\ Cardinality(Matching) >= 3
    /\ Len(qry.db_objs) = 2
    /\ qry.db_objs[1].date # qry.db_objs[2].date

\* a read without any argument over a full table
C13_WitnessAll ==
    /\ qry.op = "get_multi"
    /\ qry.filter_by = NoFilter /\ qry.order_by = <<>>
    /\ ~qry.limit.some /\ ~qry.offset.some
    /\ Len(qry.db_objs) = MaxRows

\* a read that found nothing in a table that is not empty
C13_WitnessEmpty ==
    /\ qry.op = "get_multi"
    /\ store # {} /\ Matching = {}
    /\ qry.outcome = RowsResult(<<>>)

\* C14 as stated: a call of get_multi_or_404 raises HTTPException 404 exactly
\* when get_multi with the same arguments returns no rows (the page of the
\* matching rows is empty), and otherwise returns the non-empty sequence
\* get_multi returned; and whenever a custom message was supplied, whatever
\* string it is, the detail of the error is exactly that string.
C14_AsStated ==
    qry.op = "get_multi_or_404" =>
        /\ qry.outcome.kind = "HTTPException" <=> PageLen(Cardinality(Matching)) = 0
        /\ qry.outcome.kind = "HTTPException" <=> qry.db_objs = <<>>
        /\ qry.outcome.kind = "HTTPException" => qry.outcome.status_code = 404
        /\ qry.outcome.kind = "rows" =>
              qry.outcome.rows = qry.db_objs /\ qry.db_objs # <<>>
        /\ (qry.outcome.kind = "HTTPException" /\ qry.detail.given) =>
              qry.outcome.detail = [text |-> qry.detail.text, filter_by |-> NoFilter]

\* C14 without the empty custom message: the same statement for the calls
\* whose custom message, if supplied, is a non-empty string.
C14_NonEmptyDetail ==
    (qry.detail.given => qry.detail.text # "") => C14_AsStated

\* a call with a non-empty custom message failed with 404 over a table that
\* has rows
C14_NonEmptyDetailWitness ==
    /\ qry.op = "get_multi_or_404"
    /\ qry.detail = [given |-> TRUE, text |-> "custom-1"]
    /\ store # {}
    /\ qry.outcome.kind = "HTTPException"

(***************************************************************************)
(* Claims about GET /llm/ten_msgs (SpecTen)                                 *)
(***************************************************************************)
\* C16: GET /llm/ten_msgs over N stored messages fails with 404 when N = 0
\* and otherwise returns min(N, 10) messages, newest first by date, which
\* are stored messages (message, question, date, user_id of distinct rows)
\* such that no stored message left out is more recent than a returned one;
\* with 15 stored messages exactly 10 are returned.
C16_TenMsgs ==
    qry.op = "get_ten_msgs" =>
        LET N == Cardinality(store)
            res == qry.outcome.rows IN
        /\ N = 0 <=> qry.outcome.kind = "HTTPException"
        /\ qry.outcome.kind = "HTTPException" => qry.outcome.status_code = 404
        /\ qry.outcome.kind = "rows" =>
              /\ Len(res) = (IF N <= 10 THEN N ELSE 10)
              /\ N = 15 => Len(res) = 10
              /\ \A j \in DOMAIN res, k \in DOMAIN res :
                    j < k => res[j].date >= res[k].date
              /\ Len(qry.db_objs) = Len(res)
              /\ \A k \in DOMAIN res :
                    /\ qry.db_objs[k] \in store
                    /\ res[k] = [message |-> qry.db_objs[k].message,
                                 question |-> qry.db_objs[k].question,
                                 date |-> qry.db_objs[k].date,
                                 user_id |-> qry.db_objs[k].user_id]
              /\ \A j \in DOMAIN res, k \in DOMAIN res :
                    j # k => qry.db_objs[j].id # qry.db_objs[k].id
              /\ \A o \in store \ Returned_rows :
                    \A k \in DOMAIN res : o.date <= res[k].date

\* 15 messages are stored, 10 are returned, and the oldest one returned
\* shares its timestamp with a message that was left out
C16_Witness ==
    /\ qry.op = "get_ten_msgs"
    /\ Cardinality(store) = 15
    /\ qry.outcome.kind = "rows" /\ Len(qry.outcome.rows) = 10
    /\ \E o \in store \ Returned_rows : o.date = qry.outcome.rows[10].date
    /\ qry.outcome.rows[1].date > qry.outcome.rows[10].date

\* no message is stored and the endpoint fails with 404
C16_WitnessNone ==
    /\ qry.op = "get_ten_msgs"
    /\ store = {}
    /\ qry.outcome.kind = "HTTPException" /\ qry.outcome.status_code = 404

\* C21: a call of get_multi_or_404 raises HTTPException 404 whenever the
\* page is empty, also when rows match the filters: with limit = 0, or with
\* an offset that is at least the number of matching rows, the call raises
\* 404 and returns no row, however many rows match.
C21_EmptyPage ==
    (/\ qry.op = "get_multi_or_404"
     /\ \/ qry.limit.some /\ qry.limit.val = 0
        \/ qry.offset.some /\ qry.offset.val >= Cardinality(Matching)) =>
        /\ qry.outcome.kind = "HTTPException"
        /\ qry.outcome.status_code = 404
        /\ qry.outcome.rows = <<>>

\* rows match the filters, limit is 0 (no offset), and the call raised 404
C21_Witness ==
    /\ qry.op = "get_multi_or_404"
    /\ qry.filter_by.has_user_id
    /\ Cardinality(Matching) >= 2
    /\ qry.limit = Given(0) /\ ~qry.offset.some
    /\ qry.outcome.kind = "HTTPException" /\ qry.outcome.status_code = 404

\* rows match the filters, the offset equals their number (no limit), and
\* the call raised 404
C21_WitnessOffset ==
    /\ qry.op = "get_multi_or_404"
    /\ Cardinality(Matching) = 2
    /\ qry.offset = Given(2) /\ ~qry.limit.some
    /\ qry.outcome.kind = "HTTPException" /\ qry.outcome.status_code = 404

\* the handler returned a status other than 200 and 201 with a body (the
\* chunks of its stream put together) that is not valid UTF-8
UndecodableErrorBody ==
    /\ HandlerReturned
    /\ mw.handler.status_code \notin {200, 201}
    /\ ~Utf8Valid(Concat(mw.handler.chunks))

\* C22: when the next handler returned a status other than 200 and 201 with
\* a body that is not valid UTF-8, then once dispatch has built its response
\* the request is classified Unhandled-error (and nothing else), the response
\* is the generic 500 {"detail": "Internal Server Error"} and not the
\* handler's response, the request body was logged at error severity before
\* the decoding failed, no response body line was logged, and the decoding
\* error was logged by the general exception handler.
C22_UndecodableResponse ==
    (UndecodableErrorBody /\ mw.pc \in {"finally", "done"}) =>
        /\ mw.outcomes = <<"unhandled">>
        /\ mw.response.kind = "JSONResponse"
        /\ mw.response.status_code = 500
        /\ mw.response.status_code # mw.handler.status_code
        /\ mw.response.body = [detail |-> "Internal Server Error"]
        /\ Cardinality(Entries("ERROR", "Request body")) = 1
        /\ Entries("ERROR", "Response body") = {}
        /\ \E k \in Entries("ERROR", "Exception occurred") :
              log[k].line.string.str = "UnicodeDecodeError"

\* a 404 whose body is split over two chunks, a two-byte lead followed by an
\* invalid byte, has been answered with 500
C22_Witness ==
    /\ mw.pc = "done"
    /\ UndecodableErrorBody
    /\ mw.handler.status_code = 404
    /\ mw.handler.chunks = << <<195>>, <<255>> >>
    /\ mw.response.status_code = 500

\* what GET /llm/ten_msgs may answer to a caller over the stored messages
TenMsgsFor(caller) ==
    get_multi(store, <<Desc("date")>>, Given(TenLimit), NotGiven, TenMsgsFilter(caller))

\* C23: the answer of GET /llm/ten_msgs does not depend on the caller: the
\* read the endpoint makes (no filter, newest first, limit 10) is the same
\* for every caller, each user and a caller who is not authenticated alike;
\* over the same stored messages (compared in full for tables of up to
\* MaxRows messages) what one caller got is an answer every other caller can
\* get and the possible answers are the same for all callers; and the answer
\* is drawn from the messages of all owners: a message that was left out,
\* whoever owns it, is not more recent than a returned one, and messages are
\* returned to a caller who owns none.
C23_CallerIndependent ==
    qry.op = "get_ten_msgs" =>
        /\ \A c \in Callers : TenMsgsFilter(c) = qry.filter_by
        /\ qry.filter_by = NoFilter
        /\ qry.order_by = <<Desc("date")>> /\ qry.limit = Given(10) /\ ~qry.offset.some
        /\ Cardinality(store) <= MaxRows =>
              LET mine == TenMsgsFor(qry.caller) IN
              /\ qry.db_objs \in mine
              /\ \A c \in Callers \ {qry.caller} : TenMsgsFor(c) = mine
        /\ Len(qry.db_objs) = (IF Cardinality(store) <= 10 THEN Cardinality(store) ELSE 10)
        /\ Returned_rows \subseteq store
        /\ \A o \in store \ Returned_rows :
              \A k \in DOMAIN qry.db_objs : o.date <= qry.db_objs[k].date
        /\ (store # {} /\ \A r \in store : r.user_id # qry.caller) =>
              qry.outcome.kind = "rows"

\* user 1 asked over more than ten messages and got messages of user 2
\* while older messages of user 1 were left out
C23_Witness ==
    /\ qry.op = "get_ten_msgs"
    /\ qry.caller = 1
    /\ Cardinality(store) > 10
    /\ qry.outcome.kind = "rows"
    /\ \E k \in DOMAIN qry.outcome.rows : qry.outcome.rows[k].user_id = 2
    /\ \E o \in store \ Returned_rows : o.user_id = 1

\* a caller who is not authenticated got messages
C23_WitnessAnonymous ==
    /\ qry.op = "get_ten_msgs"
    /\ qry.caller = 0
    /\ qry.outcome.kind = "rows" /\ Len(qry.outcome.rows) = 10

====
